---- MODULE Spec2Model ----
(***************************************************************************)
(* Cron-driven job scheduler of mail-api: CronSchedulerManager (over an    *)
(* APScheduler AsyncIOScheduler with a thread pool), TaskExecutor,         *)
(* TaskMonitor, DynamicTaskManager and the control-plane handlers of       *)
(* api/cron/cron_task.py, over the cron_tasks / cron_task_logs tables.     *)
(***************************************************************************)
EXTENDS Integers, Sequences, FiniteSets, TLC

\* ------------------------------------------------------------------ bounds
\* job ids (uuid suffixes) in use at once
MaxJobs == 2
\* executions (timer firings accepted + run_now calls) over a run of SpecExec
MaxExecs == 2
\* executions over a run of SpecConc (one more than max_instances is needed)
MaxConcExecs == 4
\* APScheduler events (missed / max-instances) delivered over a run
MaxEvents == 1
\* calls of get_next_run_time kept for comparison
MaxCalls == 2

\* ------------------------------------------------------- program constants
\* job_defaults['max_instances']
MaxInstances == 3

NoJob == 0
JobIds == 1..MaxJobs

\* ----------------------------------------------------------- cron strings
\* A cron expression is the sequence of its whitespace-separated fields; a
\* field is a number or the wildcard.
Star == -1

ExprEveryMinute == <<Star, Star, Star, Star, Star>>
ExprMinute61 == <<61, Star, Star, Star, Star>>
ExprFourFields == <<Star, Star, Star, Star>>
ExprSixFields == <<0, Star, Star, Star, Star, Star>>
ExprSevenFields == <<Star, Star, Star, Star, Star, Star, Star>>
\* accepted by croniter (sec last) but hour=30 for CronTrigger (sec first)
ExprSixMismatch == <<0, 0, 30, 1, 1, 59>>

ExprHour24 == <<0, 24, Star, Star, Star>>
ExprSixSecond61 == <<61, 0, Star, Star, Star, Star>>
\* midnight of the 30th of February
ExprFeb30 == <<0, 0, 30, 2, Star>>

CronExprs ==
    {ExprEveryMinute, ExprMinute61, ExprFourFields, ExprSixFields,
     ExprSevenFields, ExprSixMismatch, ExprHour24, ExprSixSecond61}

Min(S) == CHOOSE x \in S : \A y \in S : x <= y

InRange(f, lo, hi) == f = Star \/ (lo <= f /\ f <= hi)

\* croniter(expr): 5 fields (min hour day month dow), 6 (… sec) or 7 (… sec
\* year); any field out of range raises.
CroniterAccepts(c) ==
    /\ Len(c) \in {5, 6, 7}
    /\ InRange(c[1], 0, 59)
    /\ InRange(c[2], 0, 23)
    /\ InRange(c[3], 1, 31)
    /\ InRange(c[4], 1, 12)
    /\ InRange(c[5], 0, 7)
    /\ (Len(c) >= 6 => InRange(c[6], 0, 59))
    /\ (Len(c) = 7 => InRange(c[7], 1970, 2099))

\* _validate_cron_expression
validate_cron_expression(c) == CroniterAccepts(c)

\* CronTrigger(second, minute, hour, day, month, day_of_week) for 6 parts,
\* CronTrigger.from_crontab for 5 parts; TRUE when the trigger is built.
CronTriggerBuilds(c) ==
    IF Len(c) = 6
    THEN /\ InRange(c[1], 0, 59)
         /\ InRange(c[2], 0, 59)
         /\ InRange(c[3], 0, 23)
         /\ InRange(c[4], 1, 31)
         /\ InRange(c[5], 1, 12)
         /\ InRange(c[6], 0, 6)
    ELSE IF Len(c) = 5
    THEN /\ InRange(c[1], 0, 59)
         /\ InRange(c[2], 0, 23)
         /\ InRange(c[3], 1, 31)
         /\ InRange(c[4], 1, 12)
         /\ InRange(c[5], 0, 6)
    ELSE FALSE

\* croniter(expr, now).get_next(datetime) finds a date (it raises for a day
\* of month that the month never has).
CronNextComputable(c) ==
    ~ (c[4] = 2 /\ c[3] \in {30, 31})

\* _get_next_run_time: the computed time, or now + 1h when croniter raises
get_next_run_time(c) ==
    IF CronNextComputable(c) THEN "computed" ELSE "fallback"

\* ------------------------------------------- cron_utils.get_next_run_time
\* Times are whole seconds counted from the midnight that starts day 0. The
\* expressions drawn below have wildcards for day, month and weekday, so a
\* match depends on the minute, the hour and (6 fields) the second.
ExprHalfPast == <<30, Star, Star, Star, Star>>
ExprMidnight == <<0, 0, Star, Star, Star>>
ExprSecond30 == <<Star, Star, Star, Star, Star, 30>>

TimeExprs ==
    {ExprEveryMinute, ExprHalfPast, ExprMidnight, ExprSixFields,
     ExprSecond30, ExprMinute61}

\* 00:00:00, 00:00:29, 00:00:30, 00:00:59, 00:29:59, 00:30:00, 00:59:59,
\* 01:00:00, 23:59:59 of day 0 and 00:00:00 of day 1
BaseTimes == {0, 29, 30, 59, 1799, 1800, 3599, 3600, 86399, 86400}

\* get_next_run_time returns None
NoTime == -1

FieldMatches(f, v) == f = Star \/ f = v

\* (croniter_get_next_NoCarry: a search that did not carry into the next
\* day when no later hour of the day matches.)
croniter_get_next_NoCarry(c, base) ==
    LET secOk(x) == IF Len(c) >= 6 THEN FieldMatches(c[6], x) ELSE x = 0
        minOk(x) == FieldMatches(c[1], x)
        hourOk(x) == FieldMatches(c[2], x)
        d0 == base \div 86400
        h0 == (base \div 3600) % 24
        m0 == (base \div 60) % 60
        s0 == base % 60
        firstSec == Min({x \in 0..59 : secOk(x)})
        firstMin == Min({x \in 0..59 : minOk(x)})
        firstHour == Min({x \in 0..23 : hourOk(x)})
        laterSecs == {x \in (s0 + 1)..59 : secOk(x)}
        laterMins == {x \in (m0 + 1)..59 : minOk(x)}
        laterHours == {x \in (h0 + 1)..23 : hourOk(x)}
    IN  IF hourOk(h0) /\ minOk(m0) /\ laterSecs # {}
        THEN d0 * 86400 + h0 * 3600 + m0 * 60 + Min(laterSecs)
        ELSE IF hourOk(h0) /\ laterMins # {}
        THEN d0 * 86400 + h0 * 3600 + Min(laterMins) * 60 + firstSec
        ELSE IF laterHours # {}
        THEN d0 * 86400 + Min(laterHours) * 3600 + firstMin * 60 + firstSec
        ELSE d0 * 86400 + firstHour * 3600 + firstMin * 60 + firstSec

\* croniter(expr, base).get_next(datetime): the first matching time after
\* base, found field by field: a later second of the same minute, else a
\* later minute of the same hour, else a later hour of the same day, else
\* the first match of the next day. Five fields match at second 0.
croniter_get_next(c, base) ==
    LET secOk(x) == IF Len(c) >= 6 THEN FieldMatches(c[6], x) ELSE x = 0
        minOk(x) == FieldMatches(c[1], x)
        hourOk(x) == FieldMatches(c[2], x)
        d0 == base \div 86400
        h0 == (base \div 3600) % 24
        m0 == (base \div 60) % 60
        s0 == base % 60
        firstSec == Min({x \in 0..59 : secOk(x)})
        firstMin == Min({x \in 0..59 : minOk(x)})
        firstHour == Min({x \in 0..23 : hourOk(x)})
        laterSecs == {x \in (s0 + 1)..59 : secOk(x)}
        laterMins == {x \in (m0 + 1)..59 : minOk(x)}
        laterHours == {x \in (h0 + 1)..23 : hourOk(x)}
    IN  IF hourOk(h0) /\ minOk(m0) /\ laterSecs # {}
        THEN d0 * 86400 + h0 * 3600 + m0 * 60 + Min(laterSecs)
        ELSE IF hourOk(h0) /\ laterMins # {}
        THEN d0 * 86400 + h0 * 3600 + Min(laterMins) * 60 + firstSec
        ELSE IF laterHours # {}
        THEN d0 * 86400 + Min(laterHours) * 3600 + firstMin * 60 + firstSec
        ELSE (d0 + 1) * 86400 + firstHour * 3600 + firstMin * 60 + firstSec

\* cron_utils.get_next_run_time(expr, base_time): None when croniter raises
cron_utils_get_next_run_time(c, base) ==
    IF CroniterAccepts(c) /\ CronNextComputable(c)
    THEN croniter_get_next(c, base)
    ELSE NoTime

\* ------------------------------------------------------------------ state
VARIABLES
    db,               \* cron_tasks table: task id -> row
    logs,             \* cron_task_logs table: execution_id -> its rows
    is_running,       \* CronSchedulerManager.is_running
    pool_alive,       \* the scheduler's ThreadPoolExecutor accepts work
    task_registry,    \* task id -> job id (NoJob: no entry)
    jobs,             \* APScheduler jobs: job id -> job
    execs,            \* in-flight executions: handle -> execution
    nextExec,         \* next fresh execution handle
    background_tasks, \* handles of the asyncio tasks created by run_now
    children,         \* the child processes alive: <<handle, attempt>>
    stats,            \* TaskMonitor.stats
    events,           \* APScheduler events delivered, by kind
    ret,              \* what the last control-plane call returned
    cron_calls        \* the calls of cron_utils.get_next_run_time made

vars ==
    <<db, logs, is_running, pool_alive, task_registry, jobs, execs, nextExec,
      background_tasks, children, stats, events, ret, cron_calls>>

\* the ids of the rows of cron_tasks
TaskIds == DOMAIN db

schedVars == <<task_registry, jobs>>
execVars == <<execs, nextExec, background_tasks, children>>

ZeroStats ==
    [total_executions |-> 0, success_count |-> 0, error_count |-> 0,
     missed_count |-> 0]

NoEvents == [missed |-> 0, max_instances |-> 0]

\* The store holds one task per id, created active by create_task
\* (status enabled, counters 0), with ids T and max_retries in R; the
\* process has just constructed its CronSchedulerManager.
InitOf(T, R) ==
    /\ db \in [T ->
            [is_active : {TRUE}, deleted : {FALSE}, status : {"enabled"},
             cron : {ExprEveryMinute}, max_retries : R,
             run_count : {0}, success_count : {0}, error_count : {0},
             next_run_at : {"null"}]]
    /\ logs = <<>>
    /\ is_running = FALSE
    /\ pool_alive = TRUE
    /\ task_registry = [t \in T |-> NoJob]
    /\ jobs = <<>>
    /\ execs = <<>>
    /\ nextExec = 1
    /\ background_tasks = {}
    /\ children = {}
    /\ stats = [t \in T |-> ZeroStats]
    /\ events = [t \in T |-> NoEvents]
    /\ ret = "none"
    /\ cron_calls = {}

\* one task, not retried
Init == InitOf({1}, {0})

\* one task, not retried or retried twice
InitExec == InitOf({1}, {0, 2})

\* two tasks, not retried
InitLoad == InitOf({1, 2}, {0})


\* ---------------------------------------------------------------- helpers
InFlight == DOMAIN execs

InFlightOf(t) == {h \in DOMAIN execs : execs[h].task = t}

\* APScheduler's executor._instances[job_id]: submitted runs of the job
\* that have not finished
Instances(j) ==
    Cardinality({h \in DOMAIN execs :
                    execs[h].kind = "scheduled" /\ execs[h].job = j})

\* A coroutine of the main event loop is between two of its suspension
\* points: record_finish is done and the status update that follows it,
\* without an await in between, is not. No other coroutine of the loop (a
\* control-plane handler, another run_now execution) runs until it is.
MainLoopBusy ==
    \E h \in DOMAIN execs :
        execs[h].kind = "manual" /\ execs[h].pc = "recorded"

\* integration.get_scheduler(): the instance init_scheduler started and
\* shutdown_scheduler has not dropped
get_scheduler == is_running

\* ------------------------------------------------- Scheduler Manager: add
\* an add_task that relied on the croniter check alone
AddTaskRaises_CroniterOnly(c) ==
    ~ validate_cron_expression(c)

\* add_task raises: the croniter check, the field-count branch or the
\* CronTrigger constructor (all before scheduler.add_job)
AddTaskRaises(c) ==
    \/ ~ validate_cron_expression(c)
    \/ Len(c) \notin {5, 6}
    \/ ~ CronTriggerBuilds(c)

SchedState == [jobs |-> jobs, reg |-> task_registry, db |-> db]

\* job ids in use: those of the jobs, of the registry entries and of the runs
\* the executor counts
UsedJobIds(st) ==
    DOMAIN st.jobs \cup {st.reg[t] : t \in TaskIds}
        \cup {execs[h].job : h \in DOMAIN execs}

\* uuid4().hex[:8] gives an id nothing bears
FreshJobId(st) == Min(JobIds \ UsedJobIds(st))

HasFreshJobId(st) == JobIds \ UsedJobIds(st) # {}

\* add_task on the registry/timer/store state st; st unchanged when it raises.
\* job_id = cron_task_{task_id}_{uuid}: always a fresh id, so add_job's
\* replace_existing never meets an existing job. A job added to a stopped
\* scheduler is pending until scheduler.start().
AddTaskTo(st, t, c, mr, running) ==
    IF AddTaskRaises(c)
    THEN st
    ELSE [jobs |-> st.jobs @@ (FreshJobId(st) :>
                      [task |-> t, cron |-> c, max_retries |-> mr,
                       paused |-> FALSE, pending |-> ~ running]),
          reg |-> [st.reg EXCEPT ![t] = FreshJobId(st)],
          db |-> [st.db EXCEPT ![t].next_run_at = get_next_run_time(c)]]

SetSched(st) ==
    /\ jobs' = st.jobs
    /\ task_registry' = st.reg
    /\ db' = st.db

AddTask(t, c, mr) ==
    /\ ~ MainLoopBusy
    /\ AddTaskRaises(c) \/ HasFreshJobId(SchedState)
    /\ ret' = IF AddTaskRaises(c) THEN "add:ValueError" ELSE "add:job_id"
    /\ SetSched(AddTaskTo(SchedState, t, c, mr, is_running))
    /\ UNCHANGED <<logs, is_running, pool_alive, execVars, stats, events>>
    /\ UNCHANGED cron_calls

\* add_task while the store is unavailable: _update_next_run_time catches
\* the exception of DatabaseConnection / get_cursor and logs it; add_task
\* goes on and returns the job id.
AddTaskStoreDown(t, c, mr) ==
    /\ ~ MainLoopBusy
    /\ AddTaskRaises(c) \/ HasFreshJobId(SchedState)
    /\ ret' = IF AddTaskRaises(c) THEN "add:ValueError" ELSE "add:job_id"
    /\ SetSched([AddTaskTo(SchedState, t, c, mr, is_running)
                    EXCEPT !.db = db])
    /\ UNCHANGED <<logs, is_running, pool_alive, execVars, stats, events>>
    /\ UNCHANGED cron_calls

\* ---------------------------------------------- remove / pause / resume
\* scheduler.remove_job / pause_job / resume_job raise JobLookupError for a
\* job id the scheduler does not hold; the handlers catch it and return False
RemoveTaskFrom(st, t) ==
    IF st.reg[t] = NoJob \/ st.reg[t] \notin DOMAIN st.jobs
    THEN st
    ELSE [st EXCEPT
            !.jobs = [j \in DOMAIN st.jobs \ {st.reg[t]} |-> st.jobs[j]],
            !.reg = [st.reg EXCEPT ![t] = NoJob]]

RemoveTaskReturns(st, t) ==
    st.reg[t] # NoJob /\ st.reg[t] \in DOMAIN st.jobs

RemoveTask(t) ==
    /\ ~ MainLoopBusy
    /\ SetSched(RemoveTaskFrom(SchedState, t))
    /\ ret' = IF RemoveTaskReturns(SchedState, t)
              THEN "remove:true" ELSE "remove:false"
    /\ UNCHANGED <<logs, is_running, pool_alive, execVars, stats, events>>
    /\ UNCHANGED cron_calls

\* (SetPaused_ByTask: a pause/resume that looked the timers up by task id
\* instead of going through the registry.)
SetPaused_ByTask(t, p) ==
    jobs' = [j \in DOMAIN jobs |->
                IF jobs[j].task = t THEN [jobs[j] EXCEPT !.paused = p]
                ELSE jobs[j]]

SetPaused(t, p) ==
    IF task_registry[t] # NoJob /\ task_registry[t] \in DOMAIN jobs
    THEN jobs' = [jobs EXCEPT ![task_registry[t]].paused = p]
    ELSE jobs' = jobs

PauseTask(t) ==
    /\ ~ MainLoopBusy
    /\ SetPaused(t, TRUE)
    /\ ret' = IF task_registry[t] # NoJob /\ task_registry[t] \in DOMAIN jobs
              THEN "pause:true" ELSE "pause:false"
    /\ UNCHANGED <<db, logs, is_running, pool_alive, task_registry,
                   execVars, stats, events>>
    /\ UNCHANGED cron_calls

ResumeTask(t) ==
    /\ ~ MainLoopBusy
    /\ SetPaused(t, FALSE)
    /\ ret' = IF task_registry[t] # NoJob /\ task_registry[t] \in DOMAIN jobs
              THEN "resume:true" ELSE "resume:false"
    /\ UNCHANGED <<db, logs, is_running, pool_alive, task_registry,
                   execVars, stats, events>>
    /\ UNCHANGED cron_calls

\* ----------------------------------------------------------------- start
\* rows of SELECT ... WHERE is_active = 1 AND deleted_at IS NULL
Loadable == {t \in TaskIds : db[t].is_active /\ ~ db[t].deleted}

\* (LoadTasks_AbortOnError: a load whose loop ended at the first row that
\* raised.)
RECURSIVE LoadTasks_AbortOnError(_, _)
LoadTasks_AbortOnError(ts, st) ==
    IF ts = {}
    THEN st
    ELSE LET t == Min(ts)
         IN  IF AddTaskRaises(db[t].cron)
             THEN st
             ELSE LoadTasks_AbortOnError(ts \ {t},
                       AddTaskTo(st, t, db[t].cron, db[t].max_retries, TRUE))

\* the loop of _load_tasks_from_db: add_task per row, a raise skips the row
RECURSIVE LoadTasks(_, _)
LoadTasks(ts, st) ==
    IF ts = {}
    THEN st
    ELSE LET t == Min(ts)
         IN  LoadTasks(ts \ {t},
                       AddTaskTo(st, t, db[t].cron, db[t].max_retries, TRUE))

\* start(): scheduler.start() (pending jobs become live), then the load
Start ==
    /\ ~ MainLoopBusy
    /\ IF is_running
       THEN /\ ret' = "none"
            /\ UNCHANGED <<db, schedVars, is_running>>
       ELSE /\ Cardinality(UsedJobIds(SchedState) \cap JobIds)
                    + Cardinality(Loadable) <= MaxJobs
            /\ SetSched(LoadTasks(Loadable,
                    [SchedState EXCEPT
                       !.jobs = [j \in DOMAIN jobs |->
                                    [jobs[j] EXCEPT !.pending = FALSE]]]))
            /\ is_running' = TRUE
            /\ ret' = "none"
    /\ UNCHANGED <<logs, pool_alive, execVars, stats, events>>
    /\ UNCHANGED cron_calls


\* ------------------------------------------------------------------ stop
\* the asyncio tasks stop() cancels: those of run_now that are not done
Cancellable == background_tasks \cap DOMAIN execs

\* A cancelled coroutine that had entered its try block runs the
\* CancelledError handler of _execute_task_async: status back to enabled, no
\* record_finish. One cancelled before its first step never runs at all.
CancelHandled(t) ==
    \E h \in Cancellable :
        execs[h].task = t /\ execs[h].pc \in {"running", "sleeping"}

\* stop(): cancel + gather the background tasks, scheduler.shutdown(wait=False)
\* (the memory job store drops its jobs, the thread pool is shut down without
\* waiting for the runs it holds), is_running = False. The CancelledError
\* raised in a coroutine waiting for its child passes the except Exception
\* clause of _execute_command that kills the child: the child lives on.
\* (Stop_NoGuard: a stop() without the is_running guard, shutting down
\* whatever the scheduler holds.)
Stop_NoGuard ==
    /\ ~ MainLoopBusy
    /\ db' = [t \in TaskIds |->
               IF CancelHandled(t)
               THEN [db[t] EXCEPT !.status = "enabled"]
               ELSE db[t]]
    /\ execs' = [h \in DOMAIN execs \ Cancellable |-> execs[h]]
    /\ background_tasks' = {}
    /\ jobs' = <<>>
    /\ pool_alive' = FALSE
    /\ is_running' = FALSE
    /\ ret' = "none"
    /\ UNCHANGED <<logs, task_registry, nextExec, children, stats, events>>
    /\ UNCHANGED cron_calls

\* (Stop_CancelSwallowed: an executor whose except clauses caught the
\* CancelledError like any other exception, so that the cancelled coroutines
\* went on with their retry loop.)
Stop_CancelSwallowed ==
    /\ ~ MainLoopBusy
    /\ IF ~ is_running
       THEN /\ ret' = "none"
            /\ UNCHANGED <<db, jobs, is_running, pool_alive, execs,
                           background_tasks>>
       ELSE /\ db' = db
            /\ execs' = execs
            /\ background_tasks' = {}
            /\ jobs' = <<>>
            /\ pool_alive' = FALSE
            /\ is_running' = FALSE
            /\ ret' = "none"
    /\ UNCHANGED <<logs, task_registry, nextExec, children, stats, events>>
    /\ UNCHANGED cron_calls

Stop ==
    /\ ~ MainLoopBusy
    /\ IF ~ is_running
       THEN /\ ret' = "none"
            /\ UNCHANGED <<db, jobs, is_running, pool_alive, execs,
                           background_tasks>>
       ELSE /\ db' = [t \in TaskIds |->
                       IF CancelHandled(t)
                       THEN [db[t] EXCEPT !.status = "enabled"]
                       ELSE db[t]]
            /\ execs' = [h \in DOMAIN execs \ Cancellable |-> execs[h]]
            /\ background_tasks' = {}
            /\ jobs' = <<>>
            /\ pool_alive' = FALSE
            /\ is_running' = FALSE
            /\ ret' = "none"
    /\ UNCHANGED <<logs, task_registry, nextExec, children, stats, events>>
    /\ UNCHANGED cron_calls

\* The process ends (crash or exit) and a new one constructs its
\* CronSchedulerManager: everything in memory is gone, the store stays, the
\* child processes are not signalled.
ProcessRestart ==
    /\ is_running' = FALSE
    /\ pool_alive' = TRUE
    /\ task_registry' = [t \in TaskIds |-> NoJob]
    /\ jobs' = <<>>
    /\ execs' = <<>>
    /\ background_tasks' = {}
    /\ stats' = [t \in TaskIds |-> ZeroStats]
    /\ events' = [t \in TaskIds |-> NoEvents]
    /\ ret' = "none"
    /\ UNCHANGED <<db, logs, nextExec, children>>
    /\ UNCHANGED cron_calls

\* ------------------------------------------------------------ cron_utils
\* a call of get_next_run_time(expr, base_time); what it returned is kept
GetNextRunTime(c, b) ==
    /\ Cardinality(cron_calls) < MaxCalls
    /\ cron_calls' = cron_calls \cup
            {[expr |-> c, base_time |-> b,
              result |-> cron_utils_get_next_run_time(c, b)]}
    /\ UNCHANGED <<db, logs, is_running, pool_alive, schedVars, execVars,
                   stats, events, ret>>

\* ------------------------------------------------- Dynamic Task Manager
\* activate_task: the row (None when soft-deleted), the registry check,
\* add_task; an exception of add_task is caught and reported
ActivateOn(st, t) ==
    IF st.db[t].deleted \/ st.reg[t] # NoJob
    THEN st
    ELSE AddTaskTo(st, t, st.db[t].cron, st.db[t].max_retries, is_running)

ActivateReturns(st, t) ==
    IF st.db[t].deleted THEN "activate:not_found"
    ELSE IF st.reg[t] # NoJob THEN "activate:already"
    ELSE IF AddTaskRaises(st.db[t].cron) THEN "activate:failed"
    ELSE "activate:ok"

\* ids are left for the add_task this call makes
ActivateFits(st, t) ==
    ActivateReturns(st, t) = "activate:ok" => HasFreshJobId(st)

ActivateTask(t) ==
    /\ ~ MainLoopBusy
    /\ ActivateFits(SchedState, t)
    /\ SetSched(ActivateOn(SchedState, t))
    /\ ret' = ActivateReturns(SchedState, t)
    /\ UNCHANGED <<logs, is_running, pool_alive, execVars, stats, events>>
    /\ UNCHANGED cron_calls

\* activate_task while the store is unavailable: _get_task_from_db catches
\* the exception and returns None, which activate_task reports as a task
\* that does not exist.
ActivateTaskStoreDown(t) ==
    /\ ~ MainLoopBusy
    /\ ret' = "activate:not_found"
    /\ UNCHANGED <<db, logs, is_running, pool_alive, schedVars, execVars,
                   stats, events>>
    /\ UNCHANGED cron_calls

\* deactivate_task: remove_task, success whatever it returned
DeactivateTask(t) ==
    /\ ~ MainLoopBusy
    /\ SetSched(RemoveTaskFrom(SchedState, t))
    /\ ret' = "deactivate:ok"
    /\ UNCHANGED <<logs, is_running, pool_alive, execVars, stats, events>>
    /\ UNCHANGED cron_calls

\* reload_task: remove_task, then activate_task
ReloadTask(t) ==
    /\ ~ MainLoopBusy
    /\ ActivateFits(RemoveTaskFrom(SchedState, t), t)
    /\ SetSched(ActivateOn(RemoveTaskFrom(SchedState, t), t))
    /\ ret' = ActivateReturns(RemoveTaskFrom(SchedState, t), t)
    /\ UNCHANGED <<logs, is_running, pool_alive, execVars, stats, events>>
    /\ UNCHANGED cron_calls

\* ---------------------------------------------------------- control plane
\* CronTaskService.toggle_activation
ToggleDb(d, t, a) ==
    [d EXCEPT ![t].is_active = a,
              ![t].status = IF a THEN "enabled" ELSE "disabled"]

\* PATCH /tasks/{id}/activate: the store first, then the scheduler through
\* the DynamicTaskManager when integration.get_scheduler() returns one
ToggleActivation(t, a) ==
    /\ ~ MainLoopBusy
    /\ IF db[t].deleted
       THEN /\ ret' = "toggle:404"
            /\ UNCHANGED <<db, schedVars>>
       ELSE LET st0 == [SchedState EXCEPT !.db = ToggleDb(db, t, a)]
                st1 == IF ~ get_scheduler THEN st0
                       ELSE IF a THEN ActivateOn(st0, t)
                       ELSE RemoveTaskFrom(st0, t)
            IN  /\ (get_scheduler /\ a) => ActivateFits(st0, t)
                /\ SetSched(st1)
                /\ ret' = "toggle:ok"
    /\ UNCHANGED <<logs, is_running, pool_alive, execVars, stats, events>>
    /\ UNCHANGED cron_calls

\* PATCH /tasks/{id}/toggle: CronTaskService.toggle_task_status writes the
\* status alone (enabled or disabled), is_active stays. The scheduler is not
\* told.
ToggleTaskStatus(t, enabled) ==
    /\ ~ MainLoopBusy
    /\ IF db[t].deleted
       THEN ret' = "toggle_status:404" /\ db' = db
       ELSE /\ ret' = "toggle_status:ok"
            /\ db' = [db EXCEPT ![t].status =
                         IF enabled THEN "enabled" ELSE "disabled"]
    /\ UNCHANGED <<logs, is_running, pool_alive, schedVars, execVars, stats,
                   events>>
    /\ UNCHANGED cron_calls

\* PUT /tasks/{id} bodies: the is_active flag alone, or a new cron expression
UpdateInputs ==
    {[fields |-> {"is_active"}, is_active |-> b, cron |-> ExprEveryMinute] :
        b \in BOOLEAN}
    \cup
    {[fields |-> {"cron_expression"}, is_active |-> TRUE, cron |-> c] :
        c \in {ExprEveryMinute, ExprMinute61, ExprSixFields}}

\* CronTaskService.update_task: only the fields given; is_active also sets
\* status (no status in these bodies). The scheduler is not told.
UpdateDb(d, t, u) ==
    LET d1 == IF "cron_expression" \in u.fields
              THEN [d EXCEPT ![t].cron = u.cron] ELSE d
    IN  IF "is_active" \in u.fields
        THEN [d1 EXCEPT ![t].is_active = u.is_active,
                        ![t].status = IF u.is_active THEN "enabled"
                                      ELSE "disabled"]
        ELSE d1

UpdateTask(t, u) ==
    /\ ~ MainLoopBusy
    /\ IF db[t].deleted
       THEN ret' = "update:404" /\ db' = db
       ELSE ret' = "update:ok" /\ db' = UpdateDb(db, t, u)
    /\ UNCHANGED <<logs, is_running, pool_alive, schedVars, execVars, stats,
                   events>>
    /\ UNCHANGED cron_calls

\* DELETE /tasks/{id}: CronTaskService.delete_task sets deleted_at. The
\* scheduler is not told.
DeleteTask(t) ==
    /\ ~ MainLoopBusy
    /\ IF db[t].deleted
       THEN ret' = "delete:404" /\ db' = db
       ELSE ret' = "delete:ok" /\ db' = [db EXCEPT ![t].deleted = TRUE]
    /\ UNCHANGED <<logs, is_running, pool_alive, schedVars, execVars, stats,
                   events>>
    /\ UNCHANGED cron_calls

\* POST /tasks/{id}/restore
RestoreTask(t) ==
    /\ ~ MainLoopBusy
    /\ IF db[t].deleted
       THEN ret' = "restore:ok" /\ db' = [db EXCEPT ![t].deleted = FALSE]
       ELSE ret' = "restore:404" /\ db' = db
    /\ UNCHANGED <<logs, is_running, pool_alive, schedVars, execVars, stats,
                   events>>
    /\ UNCHANGED cron_calls


\* ------------------------------------------------------ Execution Monitor
\* trigger_type is not among the columns record_start inserts: the column's
\* default
DefaultTriggerType == "scheduled"

\* retry_count is written by neither record_start nor record_finish: the
\* default of the log record
DefaultRetryCount == 0

\* the rows of cron_task_logs that carry execution id eid, oldest first
RowsOf(lg, eid) == IF eid \in DOMAIN lg THEN lg[eid] ELSE <<>>

\* record_start (the definition in force, the second of the class): one
\* running row
record_start(lg, t, eid) ==
    [e \in DOMAIN lg \cup {eid} |->
        IF e = eid
        THEN Append(RowsOf(lg, eid),
                    [task_id |-> t, status |-> "running",
                     trigger_type |-> DefaultTriggerType,
                     retry_count |-> DefaultRetryCount])
        ELSE lg[e]]

\* (FinishLogs_ByTask: an UPDATE keyed by the task, WHERE task_id = the task
\* of the execution, which rewrites the rows of its earlier executions.)
FinishLogs_ByTask(lg, eid, success) ==
    [e \in DOMAIN lg |->
        [i \in DOMAIN lg[e] |->
            IF \E k \in DOMAIN RowsOf(lg, eid) :
                    lg[eid][k].task_id = lg[e][i].task_id
            THEN [lg[e][i] EXCEPT
                    !.status = IF success THEN "success" ELSE "error"]
            ELSE lg[e][i]]]

\* record_finish, the row: status = 'success' if success else 'error'
\* WHERE execution_id = eid
FinishLogs(lg, eid, success) ==
    [e \in DOMAIN lg |->
        IF e = eid
        THEN [i \in DOMAIN lg[e] |->
                [lg[e][i] EXCEPT
                    !.status = IF success THEN "success" ELSE "error"]]
        ELSE lg[e]]

\* record_finish, the task's counters (same transaction as the row)
FinishDb(d, t, success) ==
    [d EXCEPT ![t].run_count = @ + 1,
              ![t].success_count = IF success THEN @ + 1 ELSE @,
              ![t].error_count = IF success THEN @ ELSE @ + 1]

\* _update_memory_stats
update_memory_stats(s, t, success) ==
    [s EXCEPT ![t].total_executions = @ + 1,
              ![t].success_count = IF success THEN @ + 1 ELSE @,
              ![t].error_count = IF success THEN @ ELSE @ + 1]

\* record_missed: task id parsed out of cron_task_{task_id}_{uuid}
record_missed(s, j) ==
    [s EXCEPT ![jobs[j].task].missed_count = @ + 1]

\* --------------------------------------------------------------- firing
\* An execution is known by the execution_id that _execute_task_async draws
\* (uuid4) and records its rows under: the handle, a positive number.
\* returned is the execution_id handed to the caller of run_now.
NoId == 0

NewExec(t, j, kind, mr) ==
    [task |-> t, job |-> j, kind |-> kind, pc |-> "pending", attempt |-> 0,
     max_retries |-> mr, last |-> "none", returned |-> NoId, seen |-> 0]

\* execute_task_now draws an execution_id of its own (uuid4) and does not
\* pass it to the coroutine it creates for handle h: a fresh id, which no
\* execution records rows under
ReturnedId(h) == 0 - h

Live(j) ==
    /\ is_running
    /\ j \in DOMAIN jobs
    /\ ~ jobs[j].paused
    /\ ~ jobs[j].pending

\* The timer of job j comes due and the scheduler submits the run to the
\* thread pool (_execute_task_wrapper with the args given at add time). The
\* pool refuses after shutdown (logged by APScheduler). At max_instances
\* running instances of the job the run is skipped and APScheduler emits
\* EVENT_JOB_MAX_INSTANCES, for which _register_event_listeners registers
\* no listener.
TimerFire(j, cap) ==
    /\ Live(j)
    /\ IF ~ pool_alive
       THEN UNCHANGED <<execs, nextExec, events>>
       ELSE IF Instances(j) >= MaxInstances
       THEN /\ events[jobs[j].task].max_instances < MaxEvents
            /\ events' = [events EXCEPT ![jobs[j].task].max_instances = @ + 1]
            /\ UNCHANGED <<execs, nextExec>>
       ELSE /\ nextExec <= cap
            /\ execs' = execs @@ (nextExec :>
                  NewExec(jobs[j].task, j, "scheduled", jobs[j].max_retries))
            /\ nextExec' = nextExec + 1
            /\ UNCHANGED events
    /\ UNCHANGED <<db, logs, is_running, pool_alive, schedVars,
                   background_tasks, children, stats, ret>>
    /\ UNCHANGED cron_calls

\* The run of job j is picked up later than misfire_grace_time after its
\* time: APScheduler does not call the job and emits EVENT_JOB_MISSED, which
\* _on_job_missed hands to record_missed.
TimerMisfire(j) ==
    /\ Live(j)
    /\ pool_alive
    /\ Instances(j) < MaxInstances
    /\ events[jobs[j].task].missed < MaxEvents
    /\ events' = [events EXCEPT ![jobs[j].task].missed = @ + 1]
    /\ stats' = record_missed(stats, j)
    /\ UNCHANGED <<db, logs, is_running, pool_alive, schedVars, execVars, ret>>
    /\ UNCHANGED cron_calls

\* POST /tasks/{id}/run: the row (404 when soft-deleted), then
\* execute_task_now, which creates the asyncio task of _execute_task_async
\* on the main loop, tracks it in background_tasks and returns at once. It
\* does not look at is_running.
RunNow(t, cap) ==
    /\ ~ MainLoopBusy
    /\ IF db[t].deleted
       THEN /\ ret' = "run_now:404"
            /\ UNCHANGED <<execs, nextExec, background_tasks>>
       ELSE /\ nextExec <= cap
            /\ execs' = execs @@ (nextExec :>
                  [NewExec(t, NoJob, "manual", db[t].max_retries)
                      EXCEPT !.returned = ReturnedId(nextExec)])
            /\ nextExec' = nextExec + 1
            /\ background_tasks' = background_tasks \cup {nextExec}
            /\ ret' = "run_now:submitted"
    /\ UNCHANGED <<db, logs, is_running, pool_alive, schedVars, children,
                   stats, events>>
    /\ UNCHANGED cron_calls

\* ------------------------------------------------------------ execution
\* the child processes alive that the attempts of execution h spawned
ChildrenOf(h) == {c \in children : c[1] = h}

\* a step of execution h can be taken: a run_now coroutine needs the main loop
CanStep(h) ==
    /\ h \in DOMAIN execs
    /\ execs[h].kind = "manual" => ~ MainLoopBusy

AttemptOutcomes == {"ok", "fail", "timeout", "exception"}

\* record_finish as called by _execute_task_async: one transaction for the
\* row and the counters, then the in-memory counters
RecordFinish(h, success) ==
    /\ logs' = FinishLogs(logs, h, success)
    /\ db' = FinishDb(db, execs[h].task, success)
    /\ stats' = update_memory_stats(stats, execs[h].task, success)

\* _execute_task_async up to the first attempt: status running, record_start,
\* then TaskExecutor.execute enters its loop over range(max_retries + 1) and
\* spawns the command; with no iteration to make it returns the "unknown
\* error" result at once, which is recorded.
ExecBegin(h) ==
    /\ CanStep(h)
    /\ execs[h].pc = "pending"
    /\ IF execs[h].max_retries + 1 > 0
       THEN /\ execs' = [execs EXCEPT ![h].pc = "running", ![h].attempt = 1]
            /\ logs' = record_start(logs, execs[h].task, h)
            /\ db' = [db EXCEPT ![execs[h].task].status = "running"]
            /\ stats' = stats
            /\ children' = children \cup {<<h, 1>>}
       ELSE /\ execs' = [execs EXCEPT ![h].pc = "recorded",
                                      ![h].last = "unknown"]
            /\ logs' = FinishLogs(record_start(logs, execs[h].task, h), h,
                                  FALSE)
            /\ db' = FinishDb([db EXCEPT ![execs[h].task].status = "running"],
                              execs[h].task, FALSE)
            /\ stats' = update_memory_stats(stats, execs[h].task, FALSE)
            /\ children' = children
    /\ UNCHANGED <<is_running, pool_alive, schedVars, nextExec,
                   background_tasks, events, ret>>
    /\ UNCHANGED cron_calls

\* (LastAttempt_OneFewer: a loop over range(max_retries).)
LastAttempt_OneFewer(e, o) == o = "ok" \/ ~ (e.attempt < e.max_retries)

\* the attempt made is the last one: it succeeded, or attempt < max_retries
\* (0-based) is false
LastAttempt(e, o) == o = "ok" \/ ~ (e.attempt - 1 < e.max_retries)

\* an executor that recorded the failure of every attempt, not only of the
\* last one
AttemptEnd_RecordEachAttempt(h, o) ==
    /\ CanStep(h)
    /\ execs[h].pc = "running"
    /\ execs' = [execs EXCEPT
                    ![h].pc = IF LastAttempt(execs[h], o)
                              THEN "recorded" ELSE "sleeping",
                    ![h].last = o]
    /\ RecordFinish(h, o = "ok")
    /\ children' = children \ {<<h, execs[h].attempt>>}
    /\ UNCHANGED <<is_running, pool_alive, schedVars, nextExec,
                   background_tasks, events, ret>>
    /\ UNCHANGED cron_calls

\* (AttemptEnd_NoKillOnTimeout: an executor that raised the timeout without
\* killing the child.)
AttemptEnd_NoKillOnTimeout(h, o) ==
    /\ CanStep(h)
    /\ execs[h].pc = "running"
    /\ IF LastAttempt(execs[h], o)
       THEN /\ execs' = [execs EXCEPT ![h].pc = "recorded", ![h].last = o]
            /\ RecordFinish(h, o = "ok")
       ELSE /\ execs' = [execs EXCEPT ![h].pc = "sleeping"]
            /\ UNCHANGED <<db, logs, stats>>
    /\ children' = IF o = "timeout" THEN children
                   ELSE children \ {<<h, execs[h].attempt>>}
    /\ UNCHANGED <<is_running, pool_alive, schedVars, nextExec,
                   background_tasks, events, ret>>
    /\ UNCHANGED cron_calls

\* An attempt ends: exit code 0, non-zero exit, timeout (the child is killed
\* and waited for) or an exception of spawn/communicate (the child is killed
\* if it is alive): the child is gone in each case. A failed attempt
\* that is not the last sleeps retry_interval (its result is dropped); after
\* the last one execute returns and _execute_task_async calls
\* record_finish(success).
AttemptEnd(h, o) ==
    /\ CanStep(h)
    /\ execs[h].pc = "running"
    /\ IF LastAttempt(execs[h], o)
       THEN /\ execs' = [execs EXCEPT ![h].pc = "recorded", ![h].last = o]
            /\ RecordFinish(h, o = "ok")
       ELSE /\ execs' = [execs EXCEPT ![h].pc = "sleeping"]
            /\ UNCHANGED <<db, logs, stats>>
    /\ children' = children \ {<<h, execs[h].attempt>>}
    /\ UNCHANGED <<is_running, pool_alive, schedVars, nextExec,
                   background_tasks, events, ret>>
    /\ UNCHANGED cron_calls

\* The last attempt of a scheduled execution ends and record_finish runs in
\* its worker thread (_execute_task_wrapper drives a loop of its own there).
\* stats['total_executions'] += 1 of _update_memory_stats is a read, an add
\* and a store on a dict shared by all threads, with no lock: the thread can
\* be preempted after the read. This is the step up to the read: the two store
\* statements have run and the value read is kept in seen.
AttemptEndRead(h, o) ==
    /\ CanStep(h)
    /\ execs[h].kind = "scheduled"
    /\ execs[h].pc = "running"
    /\ LastAttempt(execs[h], o)
    /\ execs' = [execs EXCEPT
                    ![h].pc = "counting", ![h].last = o,
                    ![h].seen = stats[execs[h].task].total_executions]
    /\ logs' = FinishLogs(logs, h, o = "ok")
    /\ db' = FinishDb(db, execs[h].task, o = "ok")
    /\ children' = children \ {<<h, execs[h].attempt>>}
    /\ UNCHANGED <<is_running, pool_alive, schedVars, nextExec,
                   background_tasks, stats, events, ret>>
    /\ UNCHANGED cron_calls

\* The thread goes on: it stores the value it read plus one into
\* total_executions, then adds one to success_count or error_count; the with
\* block commits.
MemoryStatsStore(h) ==
    /\ h \in DOMAIN execs
    /\ execs[h].pc = "counting"
    /\ stats' = [stats EXCEPT
                    ![execs[h].task].total_executions = execs[h].seen + 1,
                    ![execs[h].task].success_count =
                        IF execs[h].last = "ok" THEN @ + 1 ELSE @,
                    ![execs[h].task].error_count =
                        IF execs[h].last = "ok" THEN @ ELSE @ + 1]
    /\ execs' = [execs EXCEPT ![h].pc = "recorded"]
    /\ UNCHANGED <<db, logs, is_running, pool_alive, schedVars, nextExec,
                   background_tasks, children, events, ret>>
    /\ UNCHANGED cron_calls

\* where the transaction of record_finish can fail: at a statement
\* (connection or execute), or at the commit when the with block is left
StoreFailurePoints == {"execute", "commit"}

\* The last attempt ends and the store fails during record_finish: the
\* transaction is rolled back and the exception is logged and swallowed.
\* _update_memory_stats is the last call inside the with block: it has run
\* when the commit fails, not when a statement before it fails.
AttemptEndStoreFails(h, o, at) ==
    /\ CanStep(h)
    /\ execs[h].pc = "running"
    /\ LastAttempt(execs[h], o)
    /\ execs' = [execs EXCEPT ![h].pc = "recorded", ![h].last = o]
    /\ stats' = IF at = "commit"
                THEN update_memory_stats(stats, execs[h].task, o = "ok")
                ELSE stats
    /\ children' = children \ {<<h, execs[h].attempt>>}
    /\ UNCHANGED <<db, logs, is_running, pool_alive, schedVars, nextExec,
                   background_tasks, events, ret>>
    /\ UNCHANGED cron_calls

\* The coroutine starts while the store fails at record_start: the INSERT of
\* the running row raises, the exception is logged and swallowed, and the
\* execution goes on without a row. The status update before it went through.
ExecBeginStoreFails(h) ==
    /\ CanStep(h)
    /\ execs[h].pc = "pending"
    /\ IF execs[h].max_retries + 1 > 0
       THEN /\ execs' = [execs EXCEPT ![h].pc = "running", ![h].attempt = 1]
            /\ db' = [db EXCEPT ![execs[h].task].status = "running"]
            /\ stats' = stats
            /\ children' = children \cup {<<h, 1>>}
       ELSE /\ execs' = [execs EXCEPT ![h].pc = "recorded",
                                      ![h].last = "unknown"]
            /\ db' = FinishDb([db EXCEPT ![execs[h].task].status = "running"],
                              execs[h].task, FALSE)
            /\ stats' = update_memory_stats(stats, execs[h].task, FALSE)
            /\ children' = children
    /\ UNCHANGED <<logs, is_running, pool_alive, schedVars, nextExec,
                   background_tasks, events, ret>>
    /\ UNCHANGED cron_calls

\* asyncio.sleep(retry_interval) returns: the next attempt is spawned
RetryWake(h) ==
    /\ CanStep(h)
    /\ execs[h].pc = "sleeping"
    /\ execs' = [execs EXCEPT ![h].pc = "running", ![h].attempt = @ + 1]
    /\ children' = children \cup {<<h, execs[h].attempt + 1>>}
    /\ UNCHANGED <<db, logs, is_running, pool_alive, schedVars, nextExec,
                   background_tasks, stats, events, ret>>
    /\ UNCHANGED cron_calls

\* (FinalStatus_KeepsStatus: a coroutine that returned after record_finish
\* without the status update.)
FinalStatus_KeepsStatus(h) ==
    /\ h \in DOMAIN execs
    /\ execs[h].pc = "recorded"
    /\ db' = db
    /\ execs' = [x \in DOMAIN execs \ {h} |-> execs[x]]
    /\ background_tasks' = background_tasks \ {h}
    /\ UNCHANGED <<logs, is_running, pool_alive, schedVars, nextExec,
                   children, stats, events, ret>>
    /\ UNCHANGED cron_calls

\* (FinalStatus_DisablesInactive: a coroutine that put the status of a task
\* found inactive at its end to disabled.)
FinalStatus_DisablesInactive(h) ==
    /\ h \in DOMAIN execs
    /\ execs[h].pc = "recorded"
    /\ db' = [db EXCEPT ![execs[h].task].status =
                 IF ~ db[execs[h].task].is_active THEN "disabled"
                 ELSE IF execs[h].last = "ok" THEN "enabled" ELSE "error"]
    /\ execs' = [x \in DOMAIN execs \ {h} |-> execs[x]]
    /\ background_tasks' = background_tasks \ {h}
    /\ UNCHANGED <<logs, is_running, pool_alive, schedVars, nextExec,
                   children, stats, events, ret>>
    /\ UNCHANGED cron_calls

\* after record_finish: status enabled on success, error otherwise; the
\* coroutine returns (the done callback discards a run_now task)
FinalStatus(h) ==
    /\ h \in DOMAIN execs
    /\ execs[h].pc = "recorded"
    /\ db' = [db EXCEPT ![execs[h].task].status =
                 IF execs[h].last = "ok" THEN "enabled" ELSE "error"]
    /\ execs' = [x \in DOMAIN execs \ {h} |-> execs[x]]
    /\ background_tasks' = background_tasks \ {h}
    /\ UNCHANGED <<logs, is_running, pool_alive, schedVars, nextExec,
                   children, stats, events, ret>>
    /\ UNCHANGED cron_calls

\* The child of an execution that is no more (cancelled, or of a process that
\* ended) runs to its end, on its own.
OrphanExit(h) ==
    /\ ChildrenOf(h) # {}
    /\ h \notin DOMAIN execs
    /\ children' = children \ ChildrenOf(h)
    /\ UNCHANGED <<db, logs, is_running, pool_alive, schedVars, execs,
                   nextExec, background_tasks, stats, events, ret>>
    /\ UNCHANGED cron_calls

\* --------------------------------------------------------- specifications
Handles == 1..(MaxConcExecs + 1)

\* callers of add_task pass the row's cron expression or one of their own,
\* and the row's max_retries
ControlPlane ==
    \/ \E t \in TaskIds, c \in CronExprs : AddTask(t, c, db[t].max_retries)
    \/ \E t \in TaskIds : RemoveTask(t)
    \/ \E t \in TaskIds : PauseTask(t)
    \/ \E t \in TaskIds : ResumeTask(t)
    \/ \E t \in TaskIds : ActivateTask(t)
    \/ \E t \in TaskIds : DeactivateTask(t)
    \/ \E t \in TaskIds : ReloadTask(t)
    \/ \E t \in TaskIds, a \in BOOLEAN : ToggleActivation(t, a)
    \/ \E t \in TaskIds, u \in UpdateInputs : UpdateTask(t, u)
    \/ \E t \in TaskIds : DeleteTask(t)
    \/ \E t \in TaskIds : RestoreTask(t)

Execution ==
    \/ \E h \in Handles : ExecBegin(h)
    \/ \E h \in Handles, o \in AttemptOutcomes : AttemptEnd(h, o)
    \/ \E h \in Handles : RetryWake(h)
    \/ \E h \in Handles : FinalStatus(h)

\* The registry and the timers under the whole control plane.
Next ==
    \/ Start
    \/ Stop
    \/ ProcessRestart
    \/ ControlPlane

Spec == Init /\ [][Next]_vars


\* The life of executions: timers loaded by start() fire, run_now submits,
\* executions run to their end, stop() and process restarts cut them short.
NextExec ==
    \/ Start
    \/ Stop
    \/ ProcessRestart
    \/ \E j \in JobIds : TimerFire(j, MaxExecs)
    \/ \E t \in TaskIds : RunNow(t, MaxExecs)
    \/ Execution
    \/ \E h \in Handles : OrphanExit(h)

SpecExec == InitExec /\ [][NextExec]_vars

\* Concurrent executions of one task, without retries.
NextConc ==
    \/ Start
    \/ \E j \in JobIds : TimerFire(j, MaxConcExecs)
    \/ \E j \in JobIds : TimerMisfire(j)
    \/ \E t \in TaskIds : RunNow(t, MaxConcExecs)
    \/ \E h \in Handles : ExecBegin(h)
    \/ \E h \in Handles, o \in AttemptOutcomes : AttemptEnd(h, o)
    \/ \E h \in Handles : FinalStatus(h)

SpecConc == Init /\ [][NextConc]_vars

\* PUT /tasks/{id} bodies that carry the is_active flag
ActivationInputs == {u \in UpdateInputs : "is_active" \in u.fields}


\* run_now executions, without retries, of a task that the control plane
\* activates, deactivates, enables and disables while they run.
NextLive ==
    \/ Start
    \/ Stop
    \/ \E t \in TaskIds : RunNow(t, MaxExecs)
    \/ \E h \in Handles : ExecBegin(h)
    \/ \E h \in Handles, o \in AttemptOutcomes : AttemptEnd(h, o)
    \/ \E h \in Handles : FinalStatus(h)
    \/ \E t \in TaskIds, a \in BOOLEAN : ToggleActivation(t, a)
    \/ \E t \in TaskIds, e \in BOOLEAN : ToggleTaskStatus(t, e)
    \/ \E t \in TaskIds, u \in ActivationInputs : UpdateTask(t, u)

SpecLive == Init /\ [][NextLive]_vars

\* a stored task whose max_retries is negative, zero or positive: the
\* CronTaskBase field is a plain int
InitRetries == InitOf({1}, {-1, 0, 1})

\* run_now executions under every sign of max_retries.
NextRetries ==
    \/ \E t \in TaskIds : RunNow(t, MaxExecs)
    \/ Execution

SpecRetries == InitRetries /\ [][NextRetries]_vars

\* Scheduled executions of one task that finish on different worker
\* threads of the pool.
NextThreads ==
    \/ Start
    \/ \E j \in JobIds : TimerFire(j, MaxExecs)
    \/ \E h \in Handles : ExecBegin(h)
    \/ \E h \in Handles, o \in AttemptOutcomes : AttemptEndRead(h, o)
    \/ \E h \in Handles : MemoryStatsStore(h)
    \/ \E h \in Handles : FinalStatus(h)

SpecThreads == Init /\ [][NextThreads]_vars

\* Executions over a store that can fail while a start or a finish is
\* recorded.
NextFault ==
    \/ Start
    \/ \E j \in JobIds : TimerFire(j, MaxExecs)
    \/ \E t \in TaskIds : RunNow(t, MaxExecs)
    \/ Execution
    \/ \E h \in Handles, o \in AttemptOutcomes, at \in StoreFailurePoints :
          AttemptEndStoreFails(h, o, at)
    \/ \E h \in Handles : ExecBeginStoreFails(h)

SpecFault == InitExec /\ [][NextFault]_vars

\* Startup over two stored definitions that the API edits, deletes and
\* restores between runs of the process.
NextLoad ==
    \/ Start
    \/ Stop
    \/ ProcessRestart
    \/ \E t \in TaskIds, u \in UpdateInputs : UpdateTask(t, u)
    \/ \E t \in TaskIds : DeleteTask(t)
    \/ \E t \in TaskIds : RestoreTask(t)

SpecLoad == InitLoad /\ [][NextLoad]_vars

\* add_task and remove_task with expressions that include a date no month
\* has.
DateExprs == {ExprEveryMinute, ExprSixFields, ExprMinute61, ExprFeb30}

NextCron ==
    \/ Start
    \/ Stop
    \/ \E t \in TaskIds, c \in DateExprs : AddTask(t, c, db[t].max_retries)
    \/ \E t \in TaskIds : RemoveTask(t)

SpecCron == Init /\ [][NextCron]_vars

\* add_task and activate_task over a store that is unavailable during some of
\* the calls.
NextStore ==
    \/ Start
    \/ Stop
    \/ \E t \in TaskIds, c \in CronExprs : AddTask(t, c, db[t].max_retries)
    \/ \E t \in TaskIds, c \in CronExprs :
          AddTaskStoreDown(t, c, db[t].max_retries)
    \/ \E t \in TaskIds : RemoveTask(t)
    \/ \E t \in TaskIds : ActivateTask(t)
    \/ \E t \in TaskIds : ActivateTaskStoreDown(t)
    \/ \E t \in TaskIds : DeleteTask(t)

SpecStore == Init /\ [][NextStore]_vars

\* Calls of get_next_run_time alone.
NextFireTime ==
    \E c \in TimeExprs, b \in BaseTimes : GetNextRunTime(c, b)

SpecFireTime == Init /\ [][NextFireTime]_vars


\* ------------------------------------------------------------ properties
TimersOf(t) == {j \in DOMAIN jobs : jobs[j].task = t}

\* the timers of task t that can fire in this state
LiveTimersOf(t) == {j \in DOMAIN jobs : jobs[j].task = t /\ Live(j)}

\* C1: after any sequence of add and remove calls at most one live timer
\* exists per task id (re-adding replaces the previous timer).
C1_OneLiveTimerPerTask ==
    \A t \in TaskIds : Cardinality(LiveTimersOf(t)) <= 1

\* C2: a TaskDefinition with active=false has no live timer in the
\* scheduler, in every reachable state.
C2_InactiveHasNoTimer ==
    \A t \in TaskIds : ~ db[t].is_active => LiveTimersOf(t) = {}

\* The grammar of the specification: 5 fields (min hour day month weekday)
\* or 6 fields (sec min hour day month weekday), each within its range.
GrammarValid(c) ==
    \/ /\ Len(c) = 5
       /\ InRange(c[1], 0, 59) /\ InRange(c[2], 0, 23)
       /\ InRange(c[3], 1, 31) /\ InRange(c[4], 1, 12)
       /\ InRange(c[5], 0, 6)
    \/ /\ Len(c) = 6
       /\ InRange(c[1], 0, 59) /\ InRange(c[2], 0, 59)
       /\ InRange(c[3], 0, 23) /\ InRange(c[4], 1, 31)
       /\ InRange(c[5], 1, 12) /\ InRange(c[6], 0, 6)

\* the inputs that are invalid by that grammar
InvalidExprs == {c \in CronExprs : ~ GrammarValid(c)}

\* C3: add with an invalid cron expression (an invalid field, or a field
\* count other than 5 or 6) returns a validation error and leaves registry
\* and timers as they were.
C3_InvalidAddChangesNothing ==
    [][\A t \in TaskIds, c \in InvalidExprs :
          AddTask(t, c, db[t].max_retries)
            => (ret' = "add:ValueError" /\ UNCHANGED <<task_registry, jobs>>)
      ]_vars

\* an invalid add has returned its error while a timer is registered
C3_Witness ==
    /\ ret = "add:ValueError"
    /\ \E t \in TaskIds : task_registry[t] # NoJob /\ TimersOf(t) # {}

\* C4: start() resets a TaskDefinition left in status running by a crash
\* (no execution of it exists in the new process) to enabled.
C4_StartResetsRunning ==
    [][(Start /\ ~ is_running)
          => \A t \in TaskIds :
                (db[t].status = "running" /\ InFlightOf(t) = {})
                    => db'[t].status = "enabled"
      ]_vars

\* executions of task t whose row is sealed with status st
SealedAs(t, st) ==
    {e \in DOMAIN logs :
        \E i \in DOMAIN logs[e] :
            logs[e][i].task_id = t /\ logs[e][i].status = st}

\* C5: an execution whose attempts all failed has exactly one Execution row,
\* of status error, and the task's error_count went up by one for it, not by
\* one per attempt: error_count is the number of executions sealed as error.
C5_OneRowOneError ==
    /\ \A h \in DOMAIN execs :
          (execs[h].pc = "recorded" /\ execs[h].last # "ok")
            => /\ Len(RowsOf(logs, h)) = 1
               /\ logs[h][1].status = "error"
    /\ \A t \in TaskIds :
          db[t].error_count = Cardinality(SealedAs(t, "error"))

\* max_retries = 2: the third attempt has failed and the execution is sealed
C5_Witness ==
    \E h \in DOMAIN execs :
        /\ execs[h].pc = "recorded"
        /\ execs[h].max_retries = 2
        /\ execs[h].attempt = 3
        /\ execs[h].last = "fail"
        /\ db[execs[h].task].error_count = 1

\* C6: an execution whose last attempt timed out is sealed with status
\* timeout in its Execution row.
C6_TimeoutSealedAsTimeout ==
    \A h \in DOMAIN execs :
        (execs[h].pc = "recorded" /\ execs[h].last = "timeout")
            => \A i \in DOMAIN RowsOf(logs, h) : logs[h][i].status = "timeout"

\* C7: stop() while an execution is mid-run moves its Execution row from
\* running to cancelled.
C7_StopSealsCancelled ==
    [][(Stop /\ is_running)
          => \A h \in DOMAIN execs :
                execs[h].pc \in {"running", "sleeping"}
                    => \A i \in DOMAIN RowsOf(logs', h) :
                          logs'[h][i].status = "cancelled"
      ]_vars

\* C8: once stop() has returned, no execution that was in flight when it
\* was called is still running, whether a timer or run_now started it.
C8_NoneInFlightAfterStop ==
    [][(Stop /\ is_running)
          => \A h \in DOMAIN execs :
                execs[h].pc \in {"running", "sleeping"}
                    => h \notin DOMAIN execs'
      ]_vars

\* C9: a firing skipped because max_instances executions of the job are
\* running is recorded by record_missed: the task's missed count covers the
\* firings missed and the firings skipped.
C9_SkippedFiringCounted ==
    \A t \in TaskIds :
        stats[t].missed_count = events[t].missed + events[t].max_instances

\* executions of task t whose command has been started and not yet recorded
Running(t) ==
    {h \in DOMAIN execs :
        execs[h].task = t /\ execs[h].pc \in {"running", "sleeping"}}

\* C10: the executions of a task in flight at once never exceed the
\* per-task maximum, whatever their trigger.
C10_AtMostMaxInstances ==
    \A t \in TaskIds : Cardinality(Running(t)) <= MaxInstances

\* C11: on a running scheduler, remove_task followed immediately by a
\* successful add_task for the same task id leaves exactly one live timer for
\* that task id.
C11_RemoveThenAddOneTimer ==
    [][\A t \in TaskIds, c \in CronExprs :
          (/\ ret \in {"remove:true", "remove:false"}
           /\ is_running
           /\ AddTask(t, c, db[t].max_retries)
           /\ ret' = "add:job_id")
            => Cardinality(LiveTimersOf(t))' = 1
      ]_vars

\* C12: the Execution row recorded for a run that run_now started carries
\* the execution id that run_now returned.
C12_RunNowIdIsRecordedId ==
    \A h \in DOMAIN execs :
        (execs[h].kind = "manual" /\ RowsOf(logs, h) # <<>>)
            => execs[h].returned = h

\* C13: a soft-deleted TaskDefinition has no live timer: its timer no longer
\* fires once it is deleted, and start() does not load it.
C13_DeletedHasNoTimer ==
    \A t \in TaskIds : db[t].deleted => LiveTimersOf(t) = {}

\* C14: when an in-flight execution is cancelled while its subprocess runs,
\* the subprocess is killed: no child of a cancelled execution is alive once
\* stop() has returned.
C14_NoChildOutlivesCancelled ==
    [][(Stop /\ is_running)
          => \A h \in Cancellable : ChildrenOf(h)' = {}
      ]_vars

\* executions of task t of this process whose finish has been recorded, or
\* attempted: they have a row and are past record_finish
Finished(t) ==
    {h \in DOMAIN logs :
        /\ \E i \in DOMAIN logs[h] : logs[h][i].task_id = t
        /\ h \in DOMAIN execs => execs[h].pc = "recorded"}

\* C15: the in-memory counters of a task are updated for every execution
\* whose finish was recorded, also when the persistence write of
\* record_finish failed.
C15_MemoryCountsEveryFinish ==
    \A t \in TaskIds : stats[t].total_executions = Cardinality(Finished(t))

\* C16: for every task the in-memory counters (total executions, successes,
\* errors) equal the persisted run/success/error counters of its
\* TaskDefinition, also after a process restart.
C16_MemoryEqualsPersisted ==
    \A t \in TaskIds :
        /\ stats[t].total_executions = db[t].run_count
        /\ stats[t].success_count = db[t].success_count
        /\ stats[t].error_count = db[t].error_count

\* C17: stop() is idempotent and safe when not started: on a scheduler that
\* is not running it raises nothing and changes no state, and every stop()
\* leaves the scheduler not running, so that a second stop() is such a call.
C17_StopWhenStoppedChangesNothing ==
    [][Stop =>
          /\ ret' = "none"
          /\ ~ is_running'
          /\ (~ is_running =>
                 UNCHANGED <<db, logs, is_running, pool_alive, task_registry,
                             jobs, execs, nextExec, background_tasks,
                             children, stats, events, cron_calls>>)]_vars

\* stop() has returned on a stopped scheduler that holds pending jobs
C17_Witness ==
    /\ ~ is_running
    /\ ret = "none"
    /\ jobs # <<>>

\* C18: remove_task, pause_task and resume_task on a task id that is not
\* registered return false without raising and leave the registry and every
\* timer unchanged.
C18_UnregisteredIsBenign ==
    [][\A t \in TaskIds :
          (task_registry[t] = NoJob
             /\ (RemoveTask(t) \/ PauseTask(t) \/ ResumeTask(t)))
            => /\ ret' \in {"remove:false", "pause:false", "resume:false"}
               /\ UNCHANGED <<task_registry, jobs>>]_vars

\* one of the three has returned false for an unregistered task while the
\* scheduler holds a timer
C18_Witness ==
    /\ ret \in {"remove:false", "pause:false", "resume:false"}
    /\ \E t \in TaskIds : task_registry[t] = NoJob
    /\ jobs # <<>>

\* task t has a registered timer that can fire
HasLiveTimer(t) ==
    /\ task_registry[t] # NoJob
    /\ task_registry[t] \in LiveTimersOf(t)

C20_PausedTaskDoesNotFire ==
    [][\A t \in TaskIds :
          /\ (PauseTask(t) /\ ret' = "pause:true")
                => /\ LiveTimersOf(t)' = {}
                   /\ task_registry' = task_registry
          /\ (ResumeTask(t) /\ ret' = "resume:true")
                => /\ is_running => HasLiveTimer(t)'
                   /\ task_registry' = task_registry]_vars

\* the well-formed inputs whose next fire time cannot be computed
UncomputableExprs ==
    {c \in DateExprs : GrammarValid(c) /\ ~ CronNextComputable(c)}

\* C21: add with a well-formed cron expression whose next fire time cannot
\* be computed (the 30th of February) is a validation failure: no timer is
\* registered for it and no next-run time is persisted.
C21_UncomputableAddRejected ==
    [][\A t \in TaskIds, c \in UncomputableExprs :
          AddTask(t, c, db[t].max_retries)
            => /\ ret' = "add:ValueError"
               /\ UNCHANGED <<task_registry, jobs>>
               /\ db'[t].next_run_at = db[t].next_run_at]_vars

\* C22: deactivate_task(t) reports success whether or not t was registered,
\* no timer of t is left in the scheduler when it returns, and a second call
\* would change nothing more.
C22_DeactivateLeavesNoTimer ==
    [][\A t \in TaskIds :
          DeactivateTask(t)
            => /\ ret' = "deactivate:ok"
               /\ TimersOf(t)' = {}
               /\ RemoveTaskFrom(SchedState, t)' = SchedState']_vars

\* C23: after reload_task(t) of a task whose definition is in the store
\* (and can be scheduled), exactly one timer is registered for t and it
\* bears the cron expression and the retry setting of the persisted
\* definition, whether or not a timer was registered before the call.
C23_ReloadLeavesOneCurrentTimer ==
    [][\A t \in TaskIds :
          (ReloadTask(t) /\ ~ db[t].deleted /\ ~ AddTaskRaises(db[t].cron))
            => /\ Cardinality(TimersOf(t)') = 1
               /\ \A j \in TimersOf(t)' :
                     /\ jobs'[j].cron = db'[t].cron
                     /\ jobs'[j].max_retries = db'[t].max_retries]_vars

\* the expressions add_task accepts
AcceptedExprs == {c \in CronExprs : ~ AddTaskRaises(c)}

\* every timer of this state is in the next one, as it was
TimersKept ==
    \A j \in DOMAIN jobs : j \in DOMAIN jobs' /\ jobs'[j] = jobs[j]

\* C24: when the store is unavailable during add_task (persisting the
\* next-run time) or activate_task (loading the definition), a persistence
\* error is surfaced to the caller and the timers already registered stay.
C24_StoreDownSurfaced ==
    [][\A t \in TaskIds :
          /\ \A c \in AcceptedExprs :
                AddTaskStoreDown(t, c, db[t].max_retries)
                  => (ret' = "add:PersistenceError" /\ TimersKept)
          /\ ActivateTaskStoreDown(t)
                => (ret' = "activate:PersistenceError" /\ TimersKept)]_vars

\* C25: the row of an execution that has been recorded bears a retry_count
\* that reflects the attempts made: their number, or the number of retries
\* among them (3 or 2 for max_retries = 2 and a command that always fails).
C25_RetryCountReflectsAttempts ==
    \A h \in DOMAIN execs :
        execs[h].pc = "recorded" =>
            \A i \in DOMAIN RowsOf(logs, h) :
                logs[h][i].retry_count
                    \in {execs[h].attempt - 1, execs[h].attempt}

\* C26: the row of an execution that run_now submitted bears trigger type
\* manual, the row of one that a timer started bears trigger type scheduled.
C26_TriggerTypeByOrigin ==
    \A h \in DOMAIN execs :
        \A i \in DOMAIN RowsOf(logs, h) :
            logs[h][i].trigger_type = execs[h].kind

C28_AttemptsBounded ==
    /\ [](\A h \in DOMAIN execs :
            /\ execs[h].attempt <= execs[h].max_retries + 1
            /\ (execs[h].pc = "recorded" /\ execs[h].last # "ok")
                  => execs[h].attempt = execs[h].max_retries + 1
            /\ execs[h].pc = "sleeping"
                  => execs[h].attempt < execs[h].max_retries + 1)
    /\ [][\A h \in DOMAIN execs :
            /\ AttemptEnd(h, "ok") => execs'[h].pc = "recorded"
            /\ (\E o \in AttemptOutcomes \ {"ok"} : AttemptEnd(h, o))
                  => execs'[h].pc =
                        IF execs[h].attempt < execs[h].max_retries + 1
                        THEN "sleeping" ELSE "recorded"]_vars

\* an execution with max_retries = 2 has returned a failure after its third
\* attempt
C28_Witness ==
    \E h \in DOMAIN execs :
        /\ execs[h].max_retries = 2
        /\ execs[h].pc = "recorded"
        /\ execs[h].last # "ok"
        /\ execs[h].attempt = 3

\* C29: an execution that has started and ends, by returning its result or
\* by being cancelled by stop(), leaves the status of its TaskDefinition at
\* enabled (success, cancellation) or error (failure), not at running.
C29_EndLeavesStatus ==
    [][\A h \in DOMAIN execs :
          (/\ execs[h].pc # "pending"
           /\ h \notin DOMAIN execs'
           /\ FinalStatus(h) \/ (Stop /\ is_running))
            => db'[execs[h].task].status =
                  IF execs[h].pc = "recorded" /\ execs[h].last # "ok"
                  THEN "error" ELSE "enabled"]_vars

\* an execution has returned a failure: its row is sealed as error and the
\* status of its task is error
C29_Witness ==
    \E h \in DOMAIN logs :
        /\ h \notin DOMAIN execs
        /\ \E i \in DOMAIN logs[h] :
              /\ logs[h][i].status = "error"
              /\ db[logs[h][i].task_id].status = "error"

\* C30: when an attempt times out its child process is killed and has exited
\* before the next attempt starts and before execute returns, so that an
\* execution never has more than one child process alive.
C30_TimedOutChildIsGone ==
    /\ [](\A h \in DOMAIN execs :
            /\ Cardinality(ChildrenOf(h)) <= 1
            /\ execs[h].pc \in {"sleeping", "recorded"} => ChildrenOf(h) = {})
    /\ [][\A h \in DOMAIN execs :
            AttemptEnd(h, "timeout") => ChildrenOf(h)' = {}]_vars

\* the last attempt of an execution that retried has timed out: execute has
\* returned and no child of the execution is alive
C30_Witness ==
    \E h \in DOMAIN execs :
        /\ execs[h].pc = "recorded"
        /\ execs[h].last = "timeout"
        /\ execs[h].attempt > 1
        /\ ChildrenOf(h) = {}

\* C31: a cancelled execution is not retried. The executions stop() cancels,
\* during an attempt or during the sleep between two attempts, are gone when
\* stop() returns; a new attempt (a new child process) is only ever started by
\* an execution that is still there, and the id of a cancelled execution is
\* never given to another one.
C31_CancelledNotRetried ==
    /\ [][(is_running /\ Stop) =>
            \A h \in Cancellable : h \notin DOMAIN execs']_vars
    /\ [][\A c \in children' \ children :
            c[1] \in DOMAIN execs /\ c[1] \in DOMAIN execs']_vars
    /\ [][\A h \in DOMAIN execs' \ DOMAIN execs :
            h = nextExec /\ nextExec' > h]_vars

\* stop() has cancelled a run_now execution that had retries left, during its
\* first attempt or the sleep after it: its row is still running, and no
\* second attempt was made
C31_Witness ==
    /\ ~ is_running
    /\ ~ pool_alive
    /\ \E h \in DOMAIN logs :
          /\ h \notin DOMAIN execs
          /\ \E i \in DOMAIN logs[h] :
                /\ logs[h][i].status = "running"
                /\ db[logs[h][i].task_id].max_retries > 0
                /\ db[logs[h][i].task_id].status = "enabled"
          /\ \A c \in children : c[1] = h => c[2] = 1

\* C32: record_finish applies the terminal status of the Execution row and
\* the counter updates of the TaskDefinition as one atomic step, also when the
\* store failed at record_start or midway through record_finish: the persisted
\* counters of a task always count exactly the rows of the task that carry a
\* terminal status.
C32_RowAndCountersTogether ==
    \A t \in TaskIds :
        /\ db[t].success_count = Cardinality(SealedAs(t, "success"))
        /\ db[t].error_count = Cardinality(SealedAs(t, "error"))
        /\ db[t].run_count =
              Cardinality(SealedAs(t, "success") \cup SealedAs(t, "error"))

\* the status values that seal an Execution row
TerminalStatuses == {"success", "error", "timeout", "cancelled"}

\* C33: each Execution row starts in status running and changes status at
\* most once: a row is running when it is inserted, and once it carries
\* success, error, timeout or cancelled no operation changes its status, or
\* removes it, again.
C33_RowSealedOnce ==
    /\ [][\A h \in DOMAIN logs' : \A i \in DOMAIN logs'[h] :
            (h \notin DOMAIN logs \/ i \notin DOMAIN logs[h])
                => logs'[h][i].status = "running"]_vars
    /\ [][\A h \in DOMAIN logs : \A i \in DOMAIN logs[h] :
            logs[h][i].status \in TerminalStatuses
                => /\ h \in DOMAIN logs'
                   /\ i \in DOMAIN logs'[h]
                   /\ logs'[h][i].status = logs[h][i].status]_vars
    /\ [][\A h \in DOMAIN logs : \A i \in DOMAIN logs[h] :
            h \in DOMAIN logs' /\ i \in DOMAIN logs'[h]
                => logs'[h][i].status \in
                        TerminalStatuses \cup {logs[h][i].status}]_vars

\* two executions of one task have been recorded, the earlier one sealed as
\* error and the later one as success: the later record_finish has run over
\* a store that held a sealed row of the same task
C33_Witness ==
    \E h1, h2 \in DOMAIN logs :
        /\ h1 < h2
        /\ \E i \in DOMAIN logs[h1], k \in DOMAIN logs[h2] :
              /\ logs[h1][i].task_id = logs[h2][k].task_id
              /\ logs[h1][i].status = "error"
              /\ logs[h2][k].status = "success"

\* a control-plane operation that disables task t: a deactivation
\* (toggle_activation or update_task with is_active false) or the status
\* toggle with enabled false
ControlDisables(t) ==
    \/ ToggleActivation(t, FALSE)
    \/ ToggleTaskStatus(t, FALSE)
    \/ \E u \in ActivationInputs : ~ u.is_active /\ UpdateTask(t, u)

\* C34: the executor never sets the status of a TaskDefinition to disabled.
\* The steps of an execution, and the cancellation by stop(), write running,
\* enabled or error only, and a status becomes disabled only in a step in
\* which the control plane disables the task.
C34_ExecutorNeverDisables ==
    /\ [][(Execution \/ Stop) =>
            \A t \in TaskIds :
                db'[t].status \in
                    {db[t].status, "running", "enabled", "error"}]_vars
    /\ [][\A t \in TaskIds :
            (db[t].status # "disabled" /\ db'[t].status = "disabled")
                => ControlDisables(t)]_vars

\* an execution has written the status of a task that the control plane
\* deactivated while it ran: the task is inactive and its status is the one
\* the execution left
C34_Witness ==
    \E t \in TaskIds :
        /\ ~ db[t].is_active
        /\ db[t].status \in {"enabled", "error"}
        /\ InFlightOf(t) = {}
        /\ SealedAs(t, "success") \cup SealedAs(t, "error") # {}

\* get_stats()['total_tasks']: len(self.task_registry)
total_tasks == Cardinality({t \in TaskIds : task_registry[t] # NoJob})

\* get_all_tasks(): one entry per job of scheduler.get_jobs()
get_all_tasks == DOMAIN jobs

\* C35: after any sequence of start, add, remove, pause, resume and stop the
\* job ids held in the task registry are exactly the jobs held by the timer
\* scheduler: no registry entry points to a job that no longer exists, no job
\* exists without a registry entry, and get_stats().total_tasks is the number
\* of jobs get_all_tasks() returns.
C35_RegistryMatchesJobs ==
    /\ {task_registry[t] : t \in TaskIds} \ {NoJob} = get_all_tasks
    /\ total_tasks = Cardinality(get_all_tasks)

\* C36: while at least one execution of a task is in flight the status of
\* the TaskDefinition is running: an execution that finishes while another
\* execution of the same task is still running does not move the status away
\* from running.
C36_RunningWhileInFlight ==
    \A t \in TaskIds : Running(t) # {} => db[t].status = "running"

\* C37: once stop() has returned and until start() is called again, and on a
\* scheduler never started, no execution is started: a step taken while the
\* scheduler is not running submits no new execution, so that run_now
\* launches no command then.
C37_NoExecutionWhileStopped ==
    [][~ is_running => DOMAIN execs' \subseteq DOMAIN execs]_vars

\* C38: a task deactivated (active false, status disabled) while one of its
\* executions is in flight keeps status disabled when that execution
\* finishes or is cancelled: the last step of an execution, and its
\* cancellation by stop(), leave the status of an inactive, disabled task at
\* disabled.
C38_DeactivatedStaysDisabled ==
    [][\A h \in DOMAIN execs :
        (/\ ~ db[execs[h].task].is_active
         /\ db[execs[h].task].status = "disabled"
         /\ FinalStatus(h) \/ (Stop /\ h \in Cancellable))
            => db'[execs[h].task].status = "disabled"]_vars

\* C39: execute runs the command at least once for every value of
\* max_retries, zero and negative values included: an execution whose result
\* has been recorded has made at least one attempt, and its result is never
\* the fall-through "unknown error" placed after the retry loop.
C39_CommandRunAtLeastOnce ==
    \A h \in DOMAIN execs :
        execs[h].pc = "recorded" =>
            execs[h].attempt >= 1 /\ execs[h].last # "unknown"

\* C40: the in-memory counters of a task lose no update when executions
\* finish concurrently on different worker threads: once the record_finish
\* calls for a task that completed their store writes have all returned,
\* total_executions is their number and equals success_count + error_count.
C40_NoLostMemoryUpdate ==
    \A t \in TaskIds :
        (\A h \in InFlightOf(t) : execs[h].pc # "counting") =>
            /\ stats[t].total_executions =
                  Cardinality(SealedAs(t, "success") \cup SealedAs(t, "error"))
            /\ stats[t].total_executions =
                  stats[t].success_count + stats[t].error_count

====
